---------------------------- MODULE Spec2Model ----------------------------
(***************************************************************************)
(* A model of the sales-forecasting pipeline of src/app.py: the daily      *)
(* aggregation and IQR clipping of the preprocessor, the segment           *)
(* volatility score, the scenario triple and the button handler of main()  *)
(* that runs them around the Prophet model.                                *)
(*                                                                         *)
(* Numbers that the code holds as floats are exact rationals here, kept    *)
(* as records [n |-> numerator, d |-> denominator] in lowest terms.        *)
(***************************************************************************)
EXTENDS Integers, Sequences, FiniteSets, TLC

VARIABLES
    \* ---- remove_outliers_iqr applied once and twice (src/app.py:528-541)
    data,           \* the series handed to remove_outliers_iqr
    multiplier,     \* its multiplier argument
    once,           \* remove_outliers_iqr(data, multiplier)
    twice,          \* remove_outliers_iqr(once, multiplier)
    passes,         \* how many passes have run: 0, 1 or 2
    \* ---- calculate_segment_volatility on two sets of rows (src/app.py:764-780)
    vol_rows,       \* rows of a dataframe
    vol_rows2,      \* rows with the same daily totals, one row split in two
    vol_score,      \* calculate_segment_volatility(vol_rows, ...), or NoScore
    vol_score2,     \* calculate_segment_volatility(vol_rows2, ...), or NoScore
    \* ---- get_forecast_scenarios on arbitrary forecast rows (src/app.py:782-794)
    scen_in,        \* forecast_df
    scen_vol,       \* its volatility argument, or NoScore
    scen_out,       \* the returned (realistic, optimistic, pessimistic), or NoScenarios
    scen_raised,    \* the exception the call raised, or ""
    \* ---- calculate_model_accuracy on its own (src/app.py:609-645)
    acc_train,      \* train_data: the daily series (ds, y)
    acc_model,      \* the fitted model
    acc_metrics,    \* what the call returned, or NotEvaluated
    \* ---- smooth_data on its own (src/app.py:543-558)
    sm_data,        \* the series handed to smooth_data
    sm_method,      \* its method argument
    sm_window,      \* its window argument
    sm_out,         \* the returned series, or NotSmoothed
    \* ---- prepare_prophet_data on its own (src/app.py:560-579)
    prep_rows,      \* the rows handed to it; Datasales counts half days
    prep_options,   \* [remove_outliers, smooth_method, smooth_window]
    prep_out,       \* the returned (daily_sales, original_data), or NotPrepared
    \* ---- the model quality of the status card on its own (src/app.py:2022-2034)
    q_metrics,      \* accuracy_metrics: the MAPE and R2 the card reads
    q_label,        \* the model_quality it shows, or ""
    \* ---- load_from_google_sheets_cached and the cache button (src/app.py:326-380, 1524-1530)
    cache_file,     \* google_sheets_cache.pkl: the pickled dataset, or NoFile
    cache_time_file,\* google_sheets_cache_time.txt: the time it holds, or NoTimeFile
    now,            \* datetime.now(), in hours
    gs_call,        \* the last call: [sheet_url, cache_duration_hours, outcome], or NoCall
    gs_returned,    \* what the last call returned: a dataset, or NoData for None
    \* ---- generate_insights on its own (src/app.py:1262-1300)
    ins_df,         \* df: the loaded rows
    ins_magazin,    \* magazin: the store selected, or AllMagazins
    ins_forecast,   \* forecast: the rows (ds, yhat) of the fitted dates and the horizon
    ins_horizon,    \* how many of its last rows are days of the horizon
    ins_out,        \* what the call returned, or NoInsights
    \* ---- one run of the forecast button's handler in main() (src/app.py:1622-1918)
    df,                 \* the loaded rows, sorted by Datasales
    selected_magazin,   \* the store selected, or AllMagazins
    selected_segment,   \* the segment selected, or AllSegments
    forecast_days,      \* sidebar: forecast horizon in days
    remove_outliers,    \* sidebar: clip outliers
    smooth_method,      \* sidebar: smoothing method
    smooth_window,      \* sidebar: smoothing window
    pc,                 \* the statement of the handler that runs next
    status,             \* how the request ended: "", "ok" or the error shown
    calls,              \* the pipeline operations this request has executed
    filtered_df,        \* the rows left by the store/segment filter
    prophet_data,       \* the processed daily series (ds, y)
    original_data,      \* the daily series before processing
    model,              \* the fitted Prophet model, or NoModel
    forecast,           \* the forecast returned by train_prophet_model, or <<>>
    accuracy_metrics,   \* what calculate_model_accuracy returned, or NotEvaluated
    historical_forecast,\* the yhat it compared with the actuals, or <<>>
    future_forecast,    \* model.predict of plot_monthly_analysis_with_forecast
    segment_volatility, \* the score used for the scenarios, or NoScore
    scenarios,          \* (realistic, optimistic, pessimistic), or NoScenarios
    model_quality,      \* the quality shown on the model status card, or ""
    quality_status      \* the quality shown as overall assessment, or ""

outlierVars  == <<data, multiplier, once, twice, passes>>
volVars      == <<vol_rows, vol_rows2, vol_score, vol_score2>>
scenVars     == <<scen_in, scen_vol, scen_out, scen_raised>>
accVars      == <<acc_train, acc_model, acc_metrics>>
smoothVars   == <<sm_data, sm_method, sm_window, sm_out>>
prepVars     == <<prep_rows, prep_options, prep_out>>
qualityVars  == <<q_metrics, q_label>>
cacheVars    == <<cache_file, cache_time_file, now, gs_call, gs_returned>>
insightVars  == <<ins_df, ins_magazin, ins_forecast, ins_horizon, ins_out>>
optionVars   == <<selected_magazin, selected_segment, forecast_days,
                  remove_outliers, smooth_method, smooth_window>>
requestVars  == <<filtered_df, prophet_data, original_data, model, forecast,
                  accuracy_metrics, historical_forecast,
                  future_forecast, segment_volatility, scenarios>>
labelVars    == <<model_quality, quality_status>>
pipelineVars == <<df, optionVars, pc, status, calls, requestVars, labelVars>>

vars == <<outlierVars, volVars, scenVars, accVars, smoothVars, prepVars, qualityVars, cacheVars, insightVars, pipelineVars>>

-----------------------------------------------------------------------------
(* Bounds of the model.                                                    *)

\* longest series handed to remove_outliers_iqr
MaxLen == 5
\* largest value of such a series
MaxVal == 2

-----------------------------------------------------------------------------
(* Exact rational arithmetic.                                              *)

RECURSIVE GCD(_, _)
GCD(a, b) == IF b = 0 THEN a ELSE GCD(b, a % b)

Abs(x) == IF x < 0 THEN -x ELSE x

\* the rational n/d (d # 0) in lowest terms with a positive denominator
Rat(n, d) ==
    LET g == GCD(Abs(n), Abs(d))
        s == IF d < 0 THEN -1 ELSE 1
    IN  [n |-> s * (n \div g), d |-> s * (d \div g)]

FromInt(i) == [n |-> i, d |-> 1]
Zero == FromInt(0)

\* sums and differences over the least common denominator
RAdd(a, b) ==
    LET g == GCD(a.d, b.d)
    IN  Rat(a.n * (b.d \div g) + b.n * (a.d \div g), (a.d \div g) * b.d)
RSub(a, b) ==
    LET g == GCD(a.d, b.d)
    IN  Rat(a.n * (b.d \div g) - b.n * (a.d \div g), (a.d \div g) * b.d)
\* products with the common factors taken out first
RMul(a, b) ==
    LET g == GCD(Abs(a.n), b.d)
        h == GCD(Abs(b.n), a.d)
    IN  Rat((a.n \div g) * (b.n \div h), (a.d \div h) * (b.d \div g))
RLe(a, b)  == a.n * b.d <= b.n * a.d
RLt(a, b)  == a.n * b.d < b.n * a.d
RMax(a, b) == IF RLt(a, b) THEN b ELSE a
RMin(a, b) == IF RLt(b, a) THEN b ELSE a

-----------------------------------------------------------------------------
(* pandas Series helpers.  A Series is a sequence; its index is DOMAIN.    *)

\* s with x inserted before the first element greater than x (s ascending)
RECURSIVE Insert(_, _)
Insert(x, s) ==
    IF s = <<>> THEN <<x>>
    ELSE IF RLe(x, Head(s)) THEN <<x>> \o s
    ELSE <<Head(s)>> \o Insert(x, Tail(s))

\* the values of s in ascending order
RECURSIVE Sorted(_)
Sorted(s) == IF s = <<>> THEN <<>> ELSE Insert(Head(s), Sorted(Tail(s)))

\* Series.quantile(qn/qd) with pandas' default linear interpolation: the value
\* at the virtual position q*(n-1) of the ascending values
quantile(s, qn, qd) ==
    LET asc  == Sorted(s)
        k    == qn * (Len(s) - 1)
        lo   == (k \div qd) + 1
        frac == Rat(k % qd, qd)
    IN  IF frac.n = 0 THEN asc[lo]
        ELSE RAdd(asc[lo], RMul(frac, RSub(asc[lo + 1], asc[lo])))

\* Series.clip(lower=lo, upper=hi), for lo <= hi
clip(s, lo, hi) == [i \in DOMAIN s |-> RMin(RMax(s[i], lo), hi)]

\* Series.clip(lower=lo)
clip_lower(s, lo) == [i \in DOMAIN s |-> RMax(s[i], lo)]


-----------------------------------------------------------------------------
(* remove_outliers_iqr (src/app.py:528-541).                               *)

\* a series shorter than this is returned as it is
MinLenIQR == 4

\* the multiplier the code calls it with (the parameter's default)
DefaultMultiplier == Rat(3, 2)

Q1(s)  == quantile(s, 1, 4)
Q3(s)  == quantile(s, 3, 4)
IQR(s) == RSub(Q3(s), Q1(s))

lower_bound(s, m) == LET q1 == Q1(s) IN RSub(q1, RMul(m, RSub(Q3(s), q1)))
upper_bound(s, m) == LET q3 == Q3(s) IN RAdd(q3, RMul(m, RSub(q3, Q1(s))))

\* a slip that clips the low side only
remove_outliers_iqr_low_only(s, m) ==
    IF Len(s) < MinLenIQR THEN s ELSE clip_lower(s, lower_bound(s, m))

\* a slip that takes Q3 for the interquartile range
remove_outliers_iqr_q3_for_iqr(s, m) ==
    IF Len(s) < MinLenIQR THEN s
    ELSE clip(s, RSub(Q1(s), RMul(m, Q3(s))), RAdd(Q3(s), RMul(m, Q3(s))))

remove_outliers_iqr(s, m) ==
    IF Len(s) < MinLenIQR THEN s
    ELSE clip(s, lower_bound(s, m), upper_bound(s, m))

-----------------------------------------------------------------------------
(* Dataframe helpers.  A dataframe is a sequence of rows                   *)
(* [Magazin, Segment, Datasales, Qty]; Datasales is a day number, except   *)
(* in SpecPrepare, where it is a timestamp counted in ticks of a day.      *)

\* the rows whose Magazin is in the set magazin and whose Segment is in the set
\* segment, in their order
RECURSIVE Filter(_, _, _)
Filter(rows, magazin, segment) ==
    IF rows = <<>> THEN <<>>
    ELSE LET r    == Head(rows)
             rest == Filter(Tail(rows), magazin, segment)
         IN  IF r.Magazin \in magazin /\ r.Segment \in segment
             THEN <<r>> \o rest ELSE rest

RECURSIVE SumQty(_)
SumQty(rows) == IF rows = <<>> THEN 0 ELSE Head(rows).Qty + SumQty(Tail(rows))

RECURSIVE RowsOn(_, _)
\* the rows dated ds
RowsOn(rows, ds) ==
    IF rows = <<>> THEN <<>>
    ELSE IF Head(rows).Datasales = ds THEN <<Head(rows)>> \o RowsOn(Tail(rows), ds)
    ELSE RowsOn(Tail(rows), ds)

Dates(rows) == {rows[i].Datasales : i \in DOMAIN rows}

RECURSIVE Ascending(_)
\* the integers of S in ascending order
Ascending(S) ==
    IF S = {} THEN <<>>
    ELSE LET m == CHOOSE x \in S : \A y \in S : x <= y
         IN  <<m>> \o Ascending(S \ {m})

\* df.groupby('Datasales')['Qty'].sum(): one entry per distinct Datasales, keys
\* ascending, each the sum of Qty over the rows of that key
groupby_sum(rows) ==
    LET keys == Ascending(Dates(rows))
    IN  [i \in DOMAIN keys |-> [ds |-> keys[i], y |-> SumQty(RowsOn(rows, keys[i]))]]

RECURSIVE SumSeq(_)
SumSeq(s) == IF s = <<>> THEN 0 ELSE Head(s) + SumSeq(Tail(s))

\* a slip that takes the first n entries (DataFrame.head)
tail_takes_head(s, n) == IF n >= Len(s) THEN s ELSE SubSeq(s, 1, n)

\* the last n entries of s (DataFrame.tail)
tail(s, n) == IF n >= Len(s) THEN s ELSE SubSeq(s, Len(s) - n + 1, Len(s))

-----------------------------------------------------------------------------
(* calculate_segment_volatility (src/app.py:764-780).  A score is a record *)
(* [nan, pct]: pct is the score in hundredths, rounded down; nan says the  *)
(* float is NaN (and pct is then 0).                                       *)

\* the default score 0.3, in hundredths
DefaultVolatility == 30

Score(pct) == [nan |-> FALSE, pct |-> pct]
NaN        == [nan |-> TRUE, pct |-> 0]
NoScore    == [nan |-> FALSE, pct |-> -1]

\* floor of the square root of v, 0 <= v <= 10000
ISqrt(v) == CHOOSE r \in 0..100 : r * r <= v /\ v < (r + 1) * (r + 1)

\* daily_sales.std() / daily_sales.mean() clamped by min(max(., 0), 1), for a
\* series ys of n >= 2 non-negative daily totals with a positive sum: the
\* square of the quotient is n (n Sum y^2 - (Sum y)^2) / ((n - 1) (Sum y)^2)
clamped_cv(ys) ==
    LET n   == Len(ys)
        s   == SumSeq(ys)
        sq  == SumSeq([i \in DOMAIN ys |-> ys[i] * ys[i]])
        num == n * (n * sq - s * s)
        den == (n - 1) * s * s
    IN  IF num >= den THEN Score(100)
        ELSE Score(ISqrt((10000 * num) \div den))

calculate_segment_volatility(rows, magazin, segment) ==
    LET filtered    == Filter(rows, {magazin}, {segment})
        daily_sales == groupby_sum(filtered)
        ys          == [i \in DOMAIN daily_sales |-> daily_sales[i].y]
    IN  IF Len(filtered) < 2 THEN Score(DefaultVolatility)
        ELSE IF SumSeq(ys) = 0 THEN Score(DefaultVolatility)
        \* one daily total: std() of a single value is NaN, NaN / mean is NaN,
        \* and both max(NaN, 0) and min(NaN, 1) return their first argument
        ELSE IF Len(ys) < 2 THEN NaN
        ELSE clamped_cv(ys)

-----------------------------------------------------------------------------
(* get_forecast_scenarios (src/app.py:782-794).  A forecast row is         *)
(* [ds, yhat, yhat_lower, yhat_upper]; the volatility argument is not read. *)
(* A forecast without uncertainty bounds has rows [ds, yhat].              *)

Max(a, b) == IF a >= b THEN a ELSE b

NoScenarios == [realistic |-> <<>>, optimistic |-> <<>>, pessimistic |-> <<>>]

\* forecast_df has the columns yhat_lower and yhat_upper
has_bounds(forecast_df) ==
    \A i \in DOMAIN forecast_df :
        {"yhat_lower", "yhat_upper"} \subseteq DOMAIN forecast_df[i]

\* forecast_df['yhat_lower'] raises KeyError when the column is missing
get_forecast_scenarios_raises(forecast_df) == ~has_bounds(forecast_df)

\* the returned arrays, for a forecast_df that has the three columns
get_forecast_scenarios(forecast_df, volatility) ==
    [realistic   |-> [i \in DOMAIN forecast_df |-> forecast_df[i].yhat],
     optimistic  |-> [i \in DOMAIN forecast_df |-> Max(forecast_df[i].yhat_upper, 0)],
     pessimistic |-> [i \in DOMAIN forecast_df |-> Max(forecast_df[i].yhat_lower, 0)]]

-----------------------------------------------------------------------------
(* smooth_data (src/app.py:543-558) and prepare_prophet_data (560-579).    *)

RECURSIVE RSum(_)
RSum(s) == IF s = <<>> THEN Zero ELSE RAdd(Head(s), RSum(Tail(s)))

\* rolling(window=w, min_periods=1, center=True).mean(): entry i averages the
\* entries at i + offset - w + 1 .. i + offset that exist, offset = (w-1) div 2
rolling_mean(s, w) ==
    LET offset == (w - 1) \div 2
    IN  [i \in DOMAIN s |->
            LET lo == Max(1, i + offset - w + 1)
                hi == IF i + offset > Len(s) THEN Len(s) ELSE i + offset
            IN  RMul(RSum(SubSeq(s, lo, hi)), Rat(1, hi - lo + 1))]

RECURSIVE ewm_upto(_, _, _)
\* entry i of ewm(span=w, adjust=False).mean():
\* y[1] = x[1], y[i] = (1 - a) y[i-1] + a x[i] with a = 2 / (w + 1)
ewm_upto(s, w, i) ==
    IF i = 1 THEN s[1]
    ELSE RAdd(RMul(Rat(w - 1, w + 1), ewm_upto(s, w, i - 1)),
              RMul(Rat(2, w + 1), s[i]))

ewm_mean(s, w) == [i \in DOMAIN s |-> ewm_upto(s, w, i)]

\* scipy's savgol_filter(x, window_length, polyorder) with mode='interp'
\* raises when the window is longer than x
savgol_raises(s, w) == w > Len(s)

\* y0 - 4 y1 + 6 y2 - 4 y3 + y4 over the five entries from position a: the part
\* of them that no cubic fits
FourthDifference(s, a) ==
    RAdd(RAdd(RSub(s[a], RMul(FromInt(4), s[a + 1])), RMul(FromInt(6), s[a + 2])),
         RSub(s[a + 4], RMul(FromInt(4), s[a + 3])))

\* savgol_filter(s, w, polyorder = min(3, w - 1)) for the windows of the model,
\* 3 and 5, on a series of at least w entries.  Window 3 fits a parabola to 3
\* points, which passes through them.  Window 5 fits a cubic to 5 points by
\* least squares: it leaves y[j] - c[j] d / 70 with d the fourth difference of
\* the window and c = (1, -4, 6, -4, 1); the first and last two entries are
\* read off the fit of the first and the last window (mode='interp').
savgol_filter(s, w) ==
    IF w = 3 THEN s
    ELSE [i \in DOMAIN s |->
            LET a == IF i <= 2 THEN 1
                     ELSE IF i >= Len(s) - 1 THEN Len(s) - 4
                     ELSE i - 2
                j == i - a
                c == IF j = 0 \/ j = 4 THEN 1 ELSE IF j = 2 THEN 6 ELSE -4
            IN  RSub(s[i], RMul(Rat(c, 70), FourthDifference(s, a)))]

\* the windows of the model are at most 5
smooth_data(s, method, window) ==
    IF method = "ma" THEN rolling_mean(s, window)
    ELSE IF method = "ema" THEN ewm_mean(s, window)
    ELSE IF method = "savgol" /\ Len(s) >= window
    THEN LET w == IF window % 2 = 0 THEN window + 1 ELSE window
         IN  IF savgol_raises(s, w) THEN rolling_mean(s, w) ELSE savgol_filter(s, w)
    ELSE s

\* a slip that calls savgol_filter without the length test and without the try
smooth_data_raises_unguarded(s, method, window) ==
    method = "savgol" /\ savgol_raises(s, IF window % 2 = 0 THEN window + 1 ELSE window)

\* smooth_data raises: rolling and ewm take every series; savgol_filter is
\* called behind the length test (549) inside a try whose bare except (555)
\* returns the moving average instead
smooth_data_raises(s, method, window) ==
    LET caught == TRUE
    IN  /\ method = "savgol" /\ Len(s) >= window
        /\ savgol_raises(s, IF window % 2 = 0 THEN window + 1 ELSE window)
        /\ ~caught

\* the sidebar's smoothing methods (src/app.py:1560-1569) and the windows of
\* its slider that the model takes
SmoothMethods == {"none", "ma", "ema", "savgol"}
SmoothWindows == {3, 5}

\* the column y of a daily series, and the series with that column replaced
Column(daily) == [i \in DOMAIN daily |-> daily[i].y]
WithColumn(daily, ys) == [i \in DOMAIN daily |-> [ds |-> daily[i].ds, y |-> ys[i]]]

\* a slip that leaves out the final clip(lower=0)
prepare_prophet_data_no_clip(rows, outliers, smooth, window) ==
    LET sums        == groupby_sum(rows)
        daily_sales == [i \in DOMAIN sums |-> [ds |-> sums[i].ds, y |-> FromInt(sums[i].y)]]
        clipped     == IF outliers
                       THEN remove_outliers_iqr(Column(daily_sales), DefaultMultiplier)
                       ELSE Column(daily_sales)
        smoothed    == IF smooth # "none"
                       THEN smooth_data(clipped, smooth, window)
                       ELSE clipped
    IN  [prophet_data  |-> WithColumn(daily_sales, smoothed),
         original_data |-> daily_sales]

\* a slip that returns the processed frame twice (no copy at 566)
prepare_prophet_data_no_copy(rows, outliers, smooth, window) ==
    LET sums        == groupby_sum(rows)
        daily_sales == [i \in DOMAIN sums |-> [ds |-> sums[i].ds, y |-> FromInt(sums[i].y)]]
        clipped     == IF outliers
                       THEN remove_outliers_iqr(Column(daily_sales), DefaultMultiplier)
                       ELSE Column(daily_sales)
        smoothed    == IF smooth # "none"
                       THEN smooth_data(clipped, smooth, window)
                       ELSE clipped
        processed   == WithColumn(daily_sales, clip_lower(smoothed, Zero))
    IN  [prophet_data |-> processed, original_data |-> processed]

\* smooth is the method, or "none" for the argument None
prepare_prophet_data(rows, outliers, smooth, window) ==
    LET sums        == groupby_sum(rows)
        daily_sales == [i \in DOMAIN sums |-> [ds |-> sums[i].ds, y |-> FromInt(sums[i].y)]]
        clipped     == IF outliers
                       THEN remove_outliers_iqr(Column(daily_sales), DefaultMultiplier)
                       ELSE Column(daily_sales)
        smoothed    == IF smooth # "none"
                       THEN smooth_data(clipped, smooth, window)
                       ELSE clipped
    IN  [prophet_data  |-> WithColumn(daily_sales, clip_lower(smoothed, Zero)),
         original_data |-> daily_sales]

\* prepare_prophet_data raises when smooth_data does: groupby, the copy, the
\* clips and remove_outliers_iqr take every frame
prepare_prophet_data_raises(rows, outliers, smooth, window) ==
    LET sums    == groupby_sum(rows)
        ys      == [i \in DOMAIN sums |-> FromInt(sums[i].y)]
        clipped == IF outliers THEN remove_outliers_iqr(ys, DefaultMultiplier) ELSE ys
    IN  smooth # "none" /\ smooth_data_raises(clipped, smooth, window)

-----------------------------------------------------------------------------
(* The Prophet model (library code called at src/app.py:584-596, 613, 871). *)
(* Its fit and its predictions are drawn from a bounded family: the point   *)
(* estimate is linear in the date and may be negative, and each call of     *)
(* predict draws an uncertainty interval around the point estimate whose    *)
(* width does not shrink with the distance from the last fitted date.       *)

\* largest point estimate at the last fitted date
MaxYhat == 2
Bases   == -1..MaxYhat
Slopes  == {-1, 0, 1}
Widths  == {0, 1}
Growths == {0, 1}

Intervals == [below : Widths, above : Widths, growth : Growths]

NoModel == [fitted |-> FALSE, base |-> 0, slope |-> 0, history |-> <<>>]

\* Prophet.fit raises for a dataframe with fewer than 2 rows
MinFitRows == 2

\* the models Prophet.fit may return for the series daily
FittedModels(daily) ==
    {[fitted |-> TRUE, base |-> b, slope |-> s,
      history |-> [i \in DOMAIN daily |-> daily[i].ds]] : b \in Bases, s \in Slopes}

\* model.make_future_dataframe(periods): the fitted dates, then the periods
\* days after the last of them
make_future_dataframe(m, periods) ==
    m.history \o [k \in 1..periods |-> m.history[Len(m.history)] + k]

\* the point estimate of the fitted model m for the date ds
point_estimate(m, ds) == m.base + m.slope * (ds - m.history[Len(m.history)])

\* model.predict(dates) with the interval iv drawn for this call
predict(m, iv, dates) ==
    [i \in DOMAIN dates |->
        LET yhat == point_estimate(m, dates[i])
            grow == iv.growth * Max(dates[i] - m.history[Len(m.history)], 0)
        IN  [ds |-> dates[i], yhat |-> yhat,
             yhat_lower |-> yhat - iv.below - grow,
             yhat_upper |-> yhat + iv.above + grow]]

\* a slip that forgets to clamp the point estimate
clip_forecast_bounds_only(rows) ==
    [i \in DOMAIN rows |->
        [ds |-> rows[i].ds, yhat |-> rows[i].yhat,
         yhat_lower |-> Max(rows[i].yhat_lower, 0),
         yhat_upper |-> Max(rows[i].yhat_upper, 0)]]

\* src/app.py:599-601: the three columns clipped at 0
clip_forecast(rows) ==
    [i \in DOMAIN rows |->
        [ds |-> rows[i].ds, yhat |-> Max(rows[i].yhat, 0),
         yhat_lower |-> Max(rows[i].yhat_lower, 0),
         yhat_upper |-> Max(rows[i].yhat_upper, 0)]]

\* what train_prophet_model(daily, periods) may return when fit and predict
\* raise nothing
train_prophet_model(daily, periods) ==
    {[model |-> m, forecast |-> clip_forecast(predict(m, iv, make_future_dataframe(m, periods)))] :
        m \in FittedModels(daily), iv \in Intervals}

-----------------------------------------------------------------------------
(* calculate_model_accuracy (src/app.py:609-645).  The metrics are a record *)
(* [none, MAE, RMSE, MAPE, R2]: none says the function returned None.  RMSE *)
(* is a square root and is held by the rational it is the root of; R2 is a  *)
(* float that may be NaN.                                                   *)

RAbs(a) == IF a.n < 0 THEN Rat(-a.n, a.d) ELSE a

\* a / b for b # 0
RDiv(a, b) == Rat(a.n * b.d, a.d * b.n)

\* np.sqrt of a non-negative rational
Sqrt(x) == [square |-> x]

Float(x) == [nan |-> FALSE, value |-> x]
NaNFloat == [nan |-> TRUE, value |-> Zero]

Metrics(mae, rmse, mape, r2) ==
    [none |-> FALSE, MAE |-> mae, RMSE |-> rmse, MAPE |-> mape, R2 |-> r2]

None == [none |-> TRUE, MAE |-> Zero, RMSE |-> Sqrt(Zero), MAPE |-> Zero, R2 |-> NaNFloat]

\* the value of a variable that holds metrics before the function is called
NotEvaluated ==
    [none |-> FALSE, MAE |-> FromInt(-1), RMSE |-> Sqrt(Zero), MAPE |-> Zero, R2 |-> NaNFloat]

\* np.mean of a non-empty array
mean(s) == RMul(RSum(s), Rat(1, Len(s)))

\* Prophet.predict raises for a model that was not fitted and for a dataframe
\* without rows
predict_raises(m, dates) == ~m.fitted \/ Len(dates) = 0

\* sklearn's metrics raise for arrays without samples
metrics_raise(y_true, y_pred) == Len(y_true) = 0

RECURSIVE CommonDenominator(_)
\* the least common denominator of the rationals of s
CommonDenominator(s) ==
    IF s = <<>> THEN 1
    ELSE LET rest == CommonDenominator(Tail(s))
         IN  (Head(s).d \div GCD(Head(s).d, rest)) * rest

\* the numerators of the rationals of s over the denominator cd
Over(s, cd) == [i \in DOMAIN s |-> s[i].n * (cd \div s[i].d)]

\* The sums of errors are taken over the common denominator of the two
\* arrays, so that no intermediate value outgrows the result.

mean_absolute_error(y_true, y_pred) ==
    LET cd == CommonDenominator(y_true \o y_pred)
        t  == Over(y_true, cd)
        p  == Over(y_pred, cd)
    IN  Rat(SumSeq([i \in DOMAIN t |-> Abs(t[i] - p[i])]), Len(t) * cd)

mean_squared_error(y_true, y_pred) ==
    LET cd == CommonDenominator(y_true \o y_pred)
        t  == Over(y_true, cd)
        p  == Over(y_pred, cd)
    IN  Rat(SumSeq([i \in DOMAIN t |-> (t[i] - p[i]) * (t[i] - p[i])]), Len(t) * cd * cd)

RECURSIVE Masked(_, _)
\* s[mask]: the entries of s where mask is TRUE
Masked(s, mask) ==
    IF s = <<>> THEN <<>>
    ELSE (IF Head(mask) THEN <<Head(s)>> ELSE <<>>) \o Masked(Tail(s), Tail(mask))

\* A float keeps about sixteen significant digits.  The ratios of the MAPE are
\* held to four decimals, rounded down, so that their sum stays an exact
\* rational of bounded size: the MAPE is below the exact one by less than 0.01.
RatioSteps == 10000

\* the non-negative rational r rounded down to a multiple of 1 / RatioSteps
Rounded(r) == Rat((r.n * RatioSteps) \div r.d, RatioSteps)

\* np.abs((y_true - y_pred) / y_true) at one position, y_true # 0
abs_ratio(true_i, pred_i) == Rounded(RAbs(RDiv(RSub(true_i, pred_i), true_i)))

\* a slip that averages over every position, masked or not
mape_mean_over_all(y_true, y_pred) ==
    LET mask == [i \in DOMAIN y_true |-> y_true[i] # Zero]
        kept == [i \in DOMAIN y_true |->
                    IF mask[i] THEN abs_ratio(y_true[i], y_pred[i]) ELSE Zero]
    IN  IF Len(Masked(kept, mask)) > 0 THEN RMul(mean(kept), FromInt(100)) ELSE Zero

\* src/app.py:627-631
mape(y_true, y_pred) ==
    LET mask   == [i \in DOMAIN y_true |-> y_true[i] # Zero]
        true_m == Masked(y_true, mask)
        pred_m == Masked(y_pred, mask)
    IN  IF Len(true_m) > 0
        THEN RMul(mean([i \in DOMAIN true_m |-> abs_ratio(true_m[i], pred_m[i])]),
                  FromInt(100))
        ELSE Zero

\* SS_res and SS_tot of r2_score over the common denominator cd of the arrays:
\* res is cd^2 SS_res and tot is n^2 cd^2 SS_tot
SumsOfSquares(y_true, y_pred) ==
    LET cd    == CommonDenominator(y_true \o y_pred)
        t     == Over(y_true, cd)
        p     == Over(y_pred, cd)
        n     == Len(t)
        total == SumSeq(t)
    IN  [res |-> SumSeq([i \in DOMAIN t |-> (t[i] - p[i]) * (t[i] - p[i])]),
         tot |-> SumSeq([i \in DOMAIN t |-> (n * t[i] - total) * (n * t[i] - total)]),
         n   |-> n]

\* a slip that returns the share of the residuals, SS_res / SS_tot
r2_score_residual_share(y_true, y_pred) ==
    IF Len(y_pred) < 2 THEN NaNFloat
    ELSE LET ss == SumsOfSquares(y_true, y_pred)
         IN  IF ss.tot # 0 THEN Float(Rat(ss.n * ss.n * ss.res, ss.tot))
             ELSE Float(Zero)

\* sklearn.metrics.r2_score: NaN for fewer than 2 samples; 1 - SS_res / SS_tot;
\* for SS_tot = 0 it is 1 when SS_res = 0 and 0 otherwise
r2_score(y_true, y_pred) ==
    IF Len(y_pred) < 2 THEN NaNFloat
    ELSE LET ss == SumsOfSquares(y_true, y_pred)
         IN  IF ss.tot # 0 /\ ss.res # 0
             THEN Float(RSub(FromInt(1), Rat(ss.n * ss.n * ss.res, ss.tot)))
             ELSE IF ss.res # 0 THEN Float(Zero)
             ELSE Float(FromInt(1))

\* the yhat of model.predict(train_data[['ds']]): the model's own estimates
historical_yhat(train_data, m) ==
    [i \in DOMAIN train_data |-> FromInt(point_estimate(m, train_data[i].ds))]

\* a slip that reports metrics of 0 where nothing can be compared
calculate_model_accuracy_zero_for_empty(train_data, m) ==
    IF Len(train_data) = 0
    THEN Metrics(Zero, Sqrt(Zero), Zero, Float(Zero))
    ELSE LET y_true == Column(train_data)
             y_pred == historical_yhat(train_data, m)
         IN  Metrics(mean_absolute_error(y_true, y_pred),
                     Sqrt(mean_squared_error(y_true, y_pred)),
                     mape(y_true, y_pred), r2_score(y_true, y_pred))

\* every exception raised inside is caught and None is returned
calculate_model_accuracy(train_data, m) ==
    IF predict_raises(m, [i \in DOMAIN train_data |-> train_data[i].ds]) THEN None
    ELSE LET all_true == Column(train_data)
             all_pred == historical_yhat(train_data, m)
             min_len  == IF Len(all_true) < Len(all_pred) THEN Len(all_true) ELSE Len(all_pred)
             y_true   == SubSeq(all_true, 1, min_len)
             y_pred   == SubSeq(all_pred, 1, min_len)
         IN  IF metrics_raise(y_true, y_pred) THEN None
             ELSE Metrics(mean_absolute_error(y_true, y_pred),
                          Sqrt(mean_squared_error(y_true, y_pred)),
                          mape(y_true, y_pred), r2_score(y_true, y_pred))

-----------------------------------------------------------------------------
(* The values the variables of one part hold while another part runs.      *)

OutliersIdle ==
    /\ data = <<>>
    /\ multiplier = Zero
    /\ once = <<>>
    /\ twice = <<>>
    /\ passes = 0

VolatilityIdle ==
    /\ vol_rows = <<>>
    /\ vol_rows2 = <<>>
    /\ vol_score = NoScore
    /\ vol_score2 = NoScore

ScenariosIdle ==
    /\ scen_in = <<>>
    /\ scen_vol = NoScore
    /\ scen_out = NoScenarios
    /\ scen_raised = ""

AccuracyIdle ==
    /\ acc_train = <<>>
    /\ acc_model = NoModel
    /\ acc_metrics = NotEvaluated

\* the value of sm_out before smooth_data is called
NotSmoothed == <<FromInt(-1)>>

SmoothIdle ==
    /\ sm_data = <<>>
    /\ sm_method = "none"
    /\ sm_window = 0
    /\ sm_out = NotSmoothed

NoOptions == [remove_outliers |-> FALSE, smooth_method |-> "none", smooth_window |-> 0]

\* the value of prep_out before prepare_prophet_data is called
NotPrepared == [prophet_data |-> <<[ds |-> -1, y |-> Zero]>>, original_data |-> <<>>]

\* the value of prep_out when prepare_prophet_data raised
PrepareRaised == [prophet_data |-> <<[ds |-> -2, y |-> Zero]>>, original_data |-> <<>>]

PrepareIdle ==
    /\ prep_rows = <<>>
    /\ prep_options = NoOptions
    /\ prep_out = NotPrepared

QualityIdle ==
    /\ q_metrics = NotEvaluated
    /\ q_label = ""

\* a dataset is known by the sheet it was fetched from and the hour of the fetch
Dataset(sheet_url, fetched) == [sheet_url |-> sheet_url, fetched |-> fetched]

\* no cache file, and what a call returns for None
NoFile     == Dataset("", -1)
NoData     == Dataset("", -2)
NoTimeFile == -1
NoCall     == [sheet_url |-> "", cache_duration_hours |-> 0, outcome |-> ""]

CacheIdle ==
    /\ cache_file = NoFile
    /\ cache_time_file = NoTimeFile
    /\ now = 0
    /\ gs_call = NoCall
    /\ gs_returned = NoData

\* what generate_insights returns: the two lists, and the two averages its
\* last comparison was made of (compared says whether it was reached)
Insights(insights, problems, compared, avg_forecast, historical_avg) ==
    [insights |-> insights, problems |-> problems, compared |-> compared,
     avg_forecast |-> avg_forecast, historical_avg |-> historical_avg]

\* the value of ins_out before the call
NoInsights == Insights({"not called"}, {}, FALSE, Zero, Zero)

InsightsIdle ==
    /\ ins_df = <<>>
    /\ ins_magazin = ""
    /\ ins_forecast = <<>>
    /\ ins_horizon = 0
    /\ ins_out = NoInsights

\* the request's variables before the button is pressed
RequestIdle ==
    /\ selected_magazin = ""
    /\ selected_segment = ""
    /\ forecast_days = 0
    /\ remove_outliers = FALSE
    /\ smooth_method = "none"
    /\ smooth_window = 0
    /\ pc = "ready"
    /\ status = ""
    /\ calls = {}
    /\ filtered_df = <<>>
    /\ prophet_data = <<>>
    /\ original_data = <<>>
    /\ model = NoModel
    /\ forecast = <<>>
    /\ accuracy_metrics = NotEvaluated
    /\ historical_forecast = <<>>
    /\ future_forecast = <<>>
    /\ segment_volatility = NoScore
    /\ scenarios = NoScenarios
    /\ model_quality = ""
    /\ quality_status = ""

PipelineIdle == df = <<>> /\ RequestIdle

-----------------------------------------------------------------------------
(* Specification SpecOutliers: remove_outliers_iqr on every bounded series, *)
(* then once more on its own result.                                        *)

RECURSIVE SeqsUpTo(_, _)
\* every sequence over S of length at most n
SeqsUpTo(S, n) ==
    IF n = 0 THEN {<<>>}
    ELSE LET shorter == SeqsUpTo(S, n - 1)
         IN  shorter \cup {Append(s, x) : s \in {t \in shorter : Len(t) = n - 1}, x \in S}

Multipliers == {FromInt(1), DefaultMultiplier, FromInt(2), FromInt(3)}

InitOutliers ==
    /\ data \in SeqsUpTo({FromInt(v) : v \in 0..MaxVal}, MaxLen)
    /\ multiplier \in Multipliers
    /\ once = <<>>
    /\ twice = <<>>
    /\ passes = 0
    /\ VolatilityIdle /\ ScenariosIdle /\ AccuracyIdle /\ SmoothIdle /\ PrepareIdle /\ QualityIdle /\ CacheIdle /\ InsightsIdle /\ PipelineIdle

FirstPass ==
    /\ passes = 0
    /\ once' = remove_outliers_iqr(data, multiplier)
    /\ passes' = 1
    /\ UNCHANGED <<data, multiplier, twice, volVars, scenVars, accVars, smoothVars, prepVars, qualityVars, cacheVars, insightVars, pipelineVars>>

SecondPass ==
    /\ passes = 1
    /\ twice' = remove_outliers_iqr(once, multiplier)
    /\ passes' = 2
    /\ UNCHANGED <<data, multiplier, once, volVars, scenVars, accVars, smoothVars, prepVars, qualityVars, cacheVars, insightVars, pipelineVars>>

NextOutliers == FirstPass \/ SecondPass

SpecOutliers == InitOutliers /\ [][NextOutliers]_vars

\* C3 as stated: a second pass with the same multiplier changes no value.
C3_SecondPassNoOp == passes = 2 => twice = once

SameQuartiles(s, t) == Q1(s) = Q1(t) /\ Q3(s) = Q3(t)

\* C3 amended: a second pass changes no value whenever the first pass left Q1
\* and Q3 as they were (as when it clipped nothing, or the series has fewer
\* than 4 values); otherwise it may clip further, and then every value still
\* lies within the bounds of the first pass.
C3_SecondPassWithinFirst ==
    passes = 2 =>
        /\ DOMAIN twice = DOMAIN data
        /\ (Len(data) < MinLenIQR \/ SameQuartiles(once, data)) => twice = once
        /\ Len(data) >= MinLenIQR =>
              LET lo == lower_bound(data, multiplier)
                  hi == upper_bound(data, multiplier)
              IN  \A i \in DOMAIN twice : RLe(lo, twice[i]) /\ RLe(twice[i], hi)

\* the second pass ran on a series the first pass had clipped, with quartiles
\* left as they were, and changed nothing
C3_Witness ==
    /\ passes = 2
    /\ Len(data) >= MinLenIQR
    /\ once # data
    /\ SameQuartiles(once, data)
    /\ twice = once

\* the second pass clipped further (the quartiles moved after the first pass)
C3_WitnessFurther ==
    /\ passes = 2
    /\ twice # once

\* C4: for a series of at least 4 values and multiplier 1.5 the result has the
\* same entries' index and every value lies in [Q1 - 1.5 IQR, Q3 + 1.5 IQR],
\* the quartiles taken from the input series.
C4_ClippedWithinBounds ==
    (passes >= 1 /\ Len(data) >= MinLenIQR /\ multiplier = DefaultMultiplier) =>
        /\ DOMAIN once = DOMAIN data
        /\ LET lo == RSub(Q1(data), RMul(Rat(3, 2), IQR(data)))
               hi == RAdd(Q3(data), RMul(Rat(3, 2), IQR(data)))
           IN  \A i \in DOMAIN once : RLe(lo, once[i]) /\ RLe(once[i], hi)

\* a series of 4 or more values in which the pass lowered a high value
C4_Witness ==
    /\ passes >= 1
    /\ Len(data) >= MinLenIQR
    /\ multiplier = DefaultMultiplier
    /\ \E i \in DOMAIN data : RLt(once[i], data[i])


-----------------------------------------------------------------------------
(* Specification SpecVolatility: calculate_segment_volatility for store M1 *)
(* and segment S1 on every bounded dataframe, and on the dataframe with    *)
(* one of its rows split into two rows of the same date, store and         *)
(* segment (the daily totals stay what they were).                         *)

\* most rows of such a dataframe
MaxVolRows == 3

VolRowSet ==
    [Magazin : {"M1", "M2"}, Segment : {"S1"}, Datasales : {1, 2}, Qty : 0..2]
        \cup [Magazin : {"M1"}, Segment : {"S2"}, Datasales : {1, 2}, Qty : 0..2]

\* the loaders sort the rows by Datasales (src/app.py:313)
SortedByDate(rows) ==
    \A i \in 1..(Len(rows) - 1) : rows[i].Datasales <= rows[i + 1].Datasales

InitVolatility ==
    /\ vol_rows \in {r \in SeqsUpTo(VolRowSet, MaxVolRows) : SortedByDate(r)}
    /\ vol_rows2 = vol_rows
    /\ vol_score = NoScore
    /\ vol_score2 = NoScore
    /\ OutliersIdle /\ ScenariosIdle /\ AccuracyIdle /\ SmoothIdle /\ PrepareIdle /\ QualityIdle /\ CacheIdle /\ InsightsIdle /\ PipelineIdle

\* row i replaced by two rows that share its Qty
SplitRow ==
    /\ vol_score = NoScore
    /\ vol_rows2 = vol_rows
    /\ \E i \in DOMAIN vol_rows : \E a \in 0..vol_rows[i].Qty :
          vol_rows2' = SubSeq(vol_rows, 1, i - 1)
                         \o <<[vol_rows[i] EXCEPT !.Qty = a],
                              [vol_rows[i] EXCEPT !.Qty = vol_rows[i].Qty - a]>>
                         \o SubSeq(vol_rows, i + 1, Len(vol_rows))
    /\ UNCHANGED <<vol_rows, vol_score, vol_score2, outlierVars, scenVars, accVars, smoothVars, prepVars, qualityVars, cacheVars, insightVars, pipelineVars>>

Estimate ==
    /\ vol_score = NoScore
    /\ vol_score' = calculate_segment_volatility(vol_rows, "M1", "S1")
    /\ vol_score2' = calculate_segment_volatility(vol_rows2, "M1", "S1")
    /\ UNCHANGED <<vol_rows, vol_rows2, outlierVars, scenVars, accVars, smoothVars, prepVars, qualityVars, cacheVars, insightVars, pipelineVars>>

NextVolatility == SplitRow \/ Estimate

SpecVolatility == InitVolatility /\ [][NextVolatility]_vars

\* the daily series of the rows of store M1 and segment S1
DailyOf(rows) == groupby_sum(Filter(rows, {"M1"}, {"S1"}))

\* C8: the score is a scalar in [0.1, 1.0].
C8_ScoreInRange ==
    vol_score # NoScore =>
        ~vol_score.nan /\ 10 <= vol_score.pct /\ vol_score.pct <= 100

\* C9: the score is the default 0.3 whenever the daily series of the selected
\* rows has fewer than 2 points or mean 0.
C9_DefaultForShortSeries ==
    (vol_score # NoScore
        /\ (Len(DailyOf(vol_rows)) < 2 \/ SumQty(Filter(vol_rows, {"M1"}, {"S1"})) = 0))
    => vol_score = Score(DefaultVolatility)

\* C10: two sets of rows of the same store and segment with the same daily
\* series get the same score.
C10_SameSeriesSameScore ==
    (vol_score # NoScore /\ DailyOf(vol_rows) = DailyOf(vol_rows2))
    => vol_score = vol_score2

-----------------------------------------------------------------------------
(* Specification SpecScenarios: get_forecast_scenarios on arbitrary        *)
(* forecast rows, ordered or not.                                          *)

\* most rows of such a forecast
MaxScenRows == 1
\* largest value of a column; the columns are those train_prophet_model
\* returns, so none is negative
MaxScenVal == 2

ScenTriples == [yhat : 0..MaxScenVal, yhat_lower : 0..MaxScenVal, yhat_upper : 0..MaxScenVal]

ScenForecasts ==
    {[i \in DOMAIN s |-> [ds |-> i, yhat |-> s[i].yhat,
                          yhat_lower |-> s[i].yhat_lower,
                          yhat_upper |-> s[i].yhat_upper]] :
        s \in SeqsUpTo(ScenTriples, MaxScenRows)}

\* forecasts that carry the point estimate only
PointForecasts ==
    {[i \in DOMAIN s |-> [ds |-> i, yhat |-> s[i]]] :
        s \in SeqsUpTo(0..MaxScenVal, MaxScenRows) \ {<<>>}}

ScenVolatilities == {Score(10), Score(DefaultVolatility), Score(100), NaN}

InitScenarios ==
    /\ scen_in \in ScenForecasts \cup PointForecasts
    /\ scen_vol = NoScore
    /\ scen_out = NoScenarios
    /\ scen_raised = ""
    /\ OutliersIdle /\ VolatilityIdle /\ AccuracyIdle /\ SmoothIdle /\ PrepareIdle /\ QualityIdle /\ CacheIdle /\ InsightsIdle /\ PipelineIdle

Generate ==
    /\ scen_in # <<>>
    /\ scen_vol = NoScore
    /\ \E v \in ScenVolatilities :
          /\ scen_vol' = v
          /\ IF get_forecast_scenarios_raises(scen_in)
             THEN scen_raised' = "KeyError" /\ UNCHANGED scen_out
             ELSE scen_out' = get_forecast_scenarios(scen_in, v) /\ UNCHANGED scen_raised
    /\ UNCHANGED <<scen_in, outlierVars, volVars, accVars, smoothVars, prepVars, qualityVars, cacheVars, insightVars, pipelineVars>>

NextScenarios == Generate

SpecScenarios == InitScenarios /\ [][NextScenarios]_vars

\* C2: whatever the forecast rows, the returned triples are ordered:
\* pessimistic[i] <= realistic[i] <= optimistic[i] at every index.
C2_TriplesReordered ==
    scen_out # NoScenarios =>
        \A i \in DOMAIN scen_in :
            /\ scen_out.pessimistic[i] <= scen_out.realistic[i]
            /\ scen_out.realistic[i] <= scen_out.optimistic[i]

\* C11: for a forecast without native bounds and a volatility v the generator
\* returns, at every date, pessimistic = max(point (1 - v), 0) and
\* optimistic = max(point (1 + 0.7 v), 0).
C11_BandFromVolatility ==
    (scen_vol # NoScore /\ ~scen_vol.nan /\ ~has_bounds(scen_in)) =>
        /\ scen_raised = ""
        /\ DOMAIN scen_out.realistic = DOMAIN scen_in
        /\ \A i \in DOMAIN scen_in :
              LET point == scen_in[i].yhat
                  v     == scen_vol.pct
              IN  /\ scen_out.realistic[i] = point
                  /\ FromInt(scen_out.pessimistic[i])
                        = RMax(Rat(point * (100 - v), 100), Zero)
                  /\ FromInt(scen_out.optimistic[i])
                        = RMax(Rat(point * (1000 + 7 * v), 1000), Zero)

-----------------------------------------------------------------------------
(* Specification SpecAccuracy: calculate_model_accuracy on every bounded   *)
(* daily series and every model of the family.                             *)

\* longest training window
MaxAccLen == 3
\* largest actual value
MaxAccVal == 2

AccSeries ==
    {[i \in DOMAIN s |-> [ds |-> i, y |-> FromInt(s[i])]] :
        s \in SeqsUpTo(0..MaxAccVal, MaxAccLen)}

\* the models fitted on the window, or on two days when the window is too
\* short to be fitted
AccModels(train) ==
    FittedModels(IF Len(train) >= MinFitRows THEN train
                 ELSE <<[ds |-> 1, y |-> Zero], [ds |-> 2, y |-> Zero]>>)

InitAccuracy ==
    /\ acc_train \in AccSeries
    /\ acc_model \in AccModels(acc_train)
    /\ acc_metrics = NotEvaluated
    /\ OutliersIdle /\ VolatilityIdle /\ ScenariosIdle /\ SmoothIdle /\ PrepareIdle /\ QualityIdle /\ CacheIdle /\ InsightsIdle
    /\ PipelineIdle

Evaluate ==
    /\ acc_metrics = NotEvaluated
    /\ acc_metrics' = calculate_model_accuracy(acc_train, acc_model)
    /\ UNCHANGED <<acc_train, acc_model, outlierVars, volVars, scenVars, smoothVars, prepVars, qualityVars, cacheVars, insightVars,
                   pipelineVars>>

NextAccuracy == Evaluate

SpecAccuracy == InitAccuracy /\ [][NextAccuracy]_vars

\* the actual value and the model's prediction at position i of the window
Actual(i)    == acc_train[i].y
Predicted(i) == FromInt(point_estimate(acc_model, acc_train[i].ds))

NonZeroActuals == {i \in DOMAIN acc_train : Actual(i).n # 0}

RECURSIVE SumOfRatios(_)
\* the sum over the positions I of |actual - predicted| / |actual|
SumOfRatios(I) ==
    IF I = {} THEN Zero
    ELSE LET i == CHOOSE j \in I : TRUE
         IN  RAdd(RDiv(RAbs(RSub(Actual(i), Predicted(i))), RAbs(Actual(i))),
                  SumOfRatios(I \ {i}))

ActualsAllEqual == \A i, j \in DOMAIN acc_train : Actual(i) = Actual(j)
PerfectFit      == \A i \in DOMAIN acc_train : Predicted(i) = Actual(i)

\* C12: for a window with at least one date, a record is returned whose MAPE
\* is 100 times the mean of |actual - predicted| / |actual| over the positions
\* with actual # 0 only (to the precision the ratios are held with), and 0
\* when every actual value is 0.
C12_MapeOverNonZero ==
    (acc_metrics # NotEvaluated /\ Len(acc_train) >= 1) =>
        /\ ~acc_metrics.none
        /\ NonZeroActuals = {} => acc_metrics.MAPE = Zero
        /\ NonZeroActuals # {} =>
              LET exact == RMul(Rat(100, Cardinality(NonZeroActuals)),
                                SumOfRatios(NonZeroActuals))
              IN  /\ RLe(acc_metrics.MAPE, exact)
                  /\ RLt(RSub(exact, Rat(1, 100)), acc_metrics.MAPE)

\* a window of zeros the model does not predict as zeros got a record with
\* MAPE 0 and a positive MAE
C12_Witness ==
    /\ acc_metrics # NotEvaluated
    /\ Len(acc_train) >= 2
    /\ NonZeroActuals = {}
    /\ ~acc_metrics.none
    /\ acc_metrics.MAPE = Zero
    /\ RLt(Zero, acc_metrics.MAE)

\* a window with a zero and a non-zero actual, both predicted wrongly
C12_WitnessMasked ==
    /\ acc_metrics # NotEvaluated
    /\ \E i \in NonZeroActuals : Predicted(i) # Actual(i)
    /\ \E i \in DOMAIN acc_train \ NonZeroActuals : Predicted(i) # Actual(i)

\* C13: whenever all actual values of a window that can be fitted are equal,
\* R2 = 0, whatever the predictions.
C13_ConstantActualsR2Zero ==
    (acc_metrics # NotEvaluated /\ Len(acc_train) >= MinFitRows /\ ActualsAllEqual) =>
        /\ ~acc_metrics.none
        /\ acc_metrics.R2 = Float(Zero)

\* C14: when the prediction equals the actual value at every date and the
\* actuals are not all equal, MAE = 0, RMSE = 0, MAPE = 0 and R2 = 1.
C14_PerfectFitMetrics ==
    (acc_metrics # NotEvaluated /\ PerfectFit /\ ~ActualsAllEqual) =>
        /\ ~acc_metrics.none
        /\ acc_metrics.MAE = Zero
        /\ acc_metrics.RMSE = Sqrt(Zero)
        /\ acc_metrics.MAPE = Zero
        /\ acc_metrics.R2 = Float(FromInt(1))

\* a rising window of the longest length, predicted exactly
C14_Witness ==
    /\ acc_metrics # NotEvaluated
    /\ Len(acc_train) = MaxAccLen
    /\ PerfectFit
    /\ ~ActualsAllEqual
    /\ acc_metrics.R2 = Float(FromInt(1))

\* C16: with zero comparable points the function returns None.
C16_NoneForEmptyWindow ==
    (acc_metrics # NotEvaluated /\ Len(acc_train) = 0) => acc_metrics = None

\* the function was called with an empty window and a fitted model
C16_Witness ==
    /\ Len(acc_train) = 0
    /\ acc_model.fitted
    /\ acc_metrics = None

-----------------------------------------------------------------------------
(* Specification SpecSmooth: smooth_data on every bounded series, for each *)
(* method and for the windows 3, 4 and 5.                                  *)

\* longest series handed to smooth_data
MaxSmoothLen == 5
\* largest value of such a series
MaxSmoothVal == 1

\* the methods smooth_data tells apart
SmoothDataMethods == {"ma", "ema", "savgol"}
\* the function takes any window; 4 is an even one
SmoothDataWindows == {3, 4, 5}

InitSmooth ==
    /\ sm_data \in SeqsUpTo({FromInt(v) : v \in 0..MaxSmoothVal}, MaxSmoothLen)
    /\ sm_method \in SmoothDataMethods
    /\ sm_window \in SmoothDataWindows
    /\ sm_out = NotSmoothed
    /\ OutliersIdle /\ VolatilityIdle /\ ScenariosIdle /\ AccuracyIdle /\ PrepareIdle /\ QualityIdle /\ CacheIdle /\ InsightsIdle
    /\ PipelineIdle

Smooth ==
    /\ sm_out = NotSmoothed
    /\ sm_out' = smooth_data(sm_data, sm_method, sm_window)
    /\ UNCHANGED <<sm_data, sm_method, sm_window, outlierVars, volVars, scenVars, accVars,
                   prepVars, qualityVars, cacheVars, insightVars, pipelineVars>>

NextSmooth == Smooth

SpecSmooth == InitSmooth /\ [][NextSmooth]_vars

\* the filter cannot run on sm_data: the series is shorter than the window, or
\* savgol_filter raises for the window it is given
FilterUnavailable ==
    \/ Len(sm_data) < sm_window
    \/ (IF sm_window % 2 = 0 THEN sm_window + 1 ELSE sm_window) > Len(sm_data)

\* the centered mean over the window win of sm_data at position i, over the
\* entries that exist
CenteredMean(i, win) ==
    LET offset == (win - 1) \div 2
        I      == {j \in DOMAIN sm_data : i + offset - win + 1 <= j /\ j <= i + offset}
    IN  RMul(RSum([k \in 1..Cardinality(I) |->
                     sm_data[(CHOOSE j \in I : Cardinality({h \in I : h < j}) = k - 1)]]),
             Rat(1, Cardinality(I)))

\* C20: with the Savitzky-Golay method, whenever the series is shorter than
\* the window or the filter raises, the result is the centered moving average
\* (minimum period 1) over the configured window.
C20_SavgolFallsBackToMovingAverage ==
    (sm_out # NotSmoothed /\ sm_method = "savgol" /\ FilterUnavailable) =>
        /\ DOMAIN sm_out = DOMAIN sm_data
        /\ \A i \in DOMAIN sm_data : sm_out[i] = CenteredMean(i, sm_window)

-----------------------------------------------------------------------------
(* Specification SpecPrepare: prepare_prophet_data on every bounded set of *)
(* rows of one store and segment, for the options of the sidebar.  The     *)
(* loaders keep the time of day pd.to_datetime reads (src/app.py:312), so  *)
(* Datasales is a timestamp; here it counts ticks of a day from the first  *)
(* midnight.                                                               *)

\* ticks per calendar day: a timestamp is a midnight or a time within the day
TicksPerDay == 2

calendar_day(timestamp) == timestamp \div TicksPerDay

\* most rows handed to prepare_prophet_data
MaxPrepRows == 2
\* largest Qty of a row
MaxPrepQty == 1
\* calendar days the rows spread over
MaxPrepDays == 2

PrepRowSet ==
    [Magazin : {"M1"}, Segment : {"S1"},
     Datasales : 0..(MaxPrepDays * TicksPerDay - 1), Qty : 0..MaxPrepQty]

\* longest series of one row per calendar day
MaxPrepSeries == 5

\* rows of consecutive calendar days, one row per day, dated at midnight
PrepDailyRows ==
    {[i \in DOMAIN s |-> [Magazin |-> "M1", Segment |-> "S1",
                          Datasales |-> (i - 1) * TicksPerDay, Qty |-> s[i]]] :
        s \in SeqsUpTo(0..MaxPrepQty, MaxPrepSeries)}

PrepOptions ==
    {o \in [remove_outliers : BOOLEAN, smooth_method : SmoothMethods,
            smooth_window : SmoothWindows] :
        o.smooth_method = "none" => o.smooth_window = 3}

InitPrepare ==
    /\ prep_rows \in {r \in SeqsUpTo(PrepRowSet, MaxPrepRows) : SortedByDate(r)}
                        \cup PrepDailyRows
    /\ prep_options \in PrepOptions
    /\ prep_out = NotPrepared
    /\ OutliersIdle /\ VolatilityIdle /\ ScenariosIdle /\ AccuracyIdle /\ SmoothIdle
    /\ QualityIdle /\ CacheIdle /\ InsightsIdle /\ PipelineIdle

Prepare ==
    /\ prep_out = NotPrepared
    /\ prep_out' =
          IF prepare_prophet_data_raises(prep_rows, prep_options.remove_outliers,
                                         prep_options.smooth_method,
                                         prep_options.smooth_window)
          THEN PrepareRaised
          ELSE prepare_prophet_data(prep_rows, prep_options.remove_outliers,
                                    prep_options.smooth_method,
                                    prep_options.smooth_window)
    /\ UNCHANGED <<prep_rows, prep_options, outlierVars, volVars, scenVars, accVars,
                   smoothVars, qualityVars, cacheVars, insightVars, pipelineVars>>

NextPrepare == Prepare

SpecPrepare == InitPrepare /\ [][NextPrepare]_vars

\* the calendar days of the rows handed in
PrepDays == {calendar_day(prep_rows[i].Datasales) : i \in DOMAIN prep_rows}

RECURSIVE QtyOfDay(_, _)
\* the sum of Qty over the rows of the calendar day
QtyOfDay(rows, day) ==
    IF rows = <<>> THEN 0
    ELSE (IF calendar_day(Head(rows).Datasales) = day THEN Head(rows).Qty ELSE 0)
            + QtyOfDay(Tail(rows), day)

\* the series before the final clip, for rows that are not clipped as outliers
Unclamped ==
    smooth_data(Column(prep_out.original_data), prep_options.smooth_method,
                prep_options.smooth_window)

\* C21: for every option of outlier removal, every smoothing method and every
\* window, every value of the processed series prepare_prophet_data returns
\* is >= 0.
C21_ProcessedNonNegative ==
    (prep_out # NotPrepared /\ prep_out # PrepareRaised) =>
        \A i \in DOMAIN prep_out.prophet_data : RLe(Zero, prep_out.prophet_data[i].y)

\* the Savitzky-Golay filter undershot 0 at a date and the processed value
\* there is 0
C21_Witness ==
    /\ prep_out # NotPrepared /\ prep_out # PrepareRaised
    /\ prep_options.smooth_method = "savgol" /\ ~prep_options.remove_outliers
    /\ \E i \in DOMAIN prep_out.prophet_data :
          /\ RLt(Unclamped[i], Zero)
          /\ prep_out.prophet_data[i].y = Zero

\* C22: the processed series has the dates of the unprocessed series returned
\* with it, in the same order and number, and the unprocessed series is the
\* plain aggregation of the rows whatever the options.
C22_DatesKeptOriginalUntouched ==
    (prep_out # NotPrepared /\ prep_out # PrepareRaised) =>
        LET sums == groupby_sum(prep_rows)
        IN  /\ Len(prep_out.prophet_data) = Len(prep_out.original_data)
            /\ \A i \in DOMAIN prep_out.prophet_data :
                  prep_out.prophet_data[i].ds = prep_out.original_data[i].ds
            /\ Len(prep_out.original_data) = Len(sums)
            /\ \A i \in DOMAIN sums :
                  /\ prep_out.original_data[i].ds = sums[i].ds
                  /\ prep_out.original_data[i].y = FromInt(sums[i].y)

\* a series of several dates whose values the smoothing changed
C22_Witness ==
    /\ prep_out # NotPrepared /\ prep_out # PrepareRaised
    /\ Len(prep_out.prophet_data) >= 3
    /\ prep_options.smooth_method # "none"
    /\ \E i \in DOMAIN prep_out.prophet_data :
          prep_out.prophet_data[i].y # prep_out.original_data[i].y

\* longest series remove_outliers_iqr leaves alone (src/app.py:530)
TinyLen == MinLenIQR - 1

\* C23: for rows that aggregate to a series of length 0 to 3, no smoothing
\* method, window or outlier option makes prepare_prophet_data (and with it
\* remove_outliers_iqr and smooth_data) raise, and outlier removal alone
\* returns the aggregated values unchanged.
C23_TinySeriesNoRaise ==
    (prep_out # NotPrepared /\ Len(groupby_sum(prep_rows)) <= TinyLen) =>
        /\ prep_out # PrepareRaised
        /\ (prep_options.remove_outliers /\ prep_options.smooth_method = "none") =>
              prep_out.prophet_data = prep_out.original_data
        /\ remove_outliers_iqr(Column(prep_out.original_data), DefaultMultiplier)
              = Column(prep_out.original_data)

\* a series of two dates handed to the Savitzky-Golay filter with a longer
\* window, and an empty one with outlier removal
C23_Witness ==
    /\ prep_out # NotPrepared /\ prep_out # PrepareRaised
    /\ Len(prep_out.original_data) = 2
    /\ prep_options.smooth_method = "savgol"
    /\ prep_options.remove_outliers

\* C19: the daily series has exactly one entry per calendar day of the rows,
\* the dates strictly increasing, no entry for a day without rows, and each
\* aggregated value is the sum of Qty over the rows of that day.
C19_OneEntryPerCalendarDay ==
    prep_out # NotPrepared =>
        LET daily    == prep_out.prophet_data
            original == prep_out.original_data
        IN  /\ Len(daily) = Cardinality(PrepDays)
            /\ Len(original) = Cardinality(PrepDays)
            /\ \A i \in DOMAIN daily :
                  /\ calendar_day(daily[i].ds) \in PrepDays
                  /\ original[i].ds = daily[i].ds
                  /\ original[i].y = FromInt(QtyOfDay(prep_rows, calendar_day(daily[i].ds)))
            /\ \A i \in DOMAIN daily : \A j \in DOMAIN daily :
                  i < j => calendar_day(daily[i].ds) < calendar_day(daily[j].ds)

-----------------------------------------------------------------------------
(* Specification Spec: the handler of the forecast button in main()        *)
(* (src/app.py:1622-1918), one action per stage, on a loaded dataframe.    *)

\* fewest rows the handler forecasts from (src/app.py:1632)
MinRows == 10

\* most rows of a loaded dataframe
MaxDf == 12
\* most distinct dates of a loaded dataframe
MaxDays == 3
\* longest forecast horizon
MaxHorizon == 2

AllMagazins == "all_magazins"
AllSegments == "all_segments"

\* a dataframe of n rows over the given number of dates, sorted by Datasales:
\* every 5th row is of store M2, every 6th of segment S2
Dataframe(n, days) ==
    [i \in 1..n |->
        [Magazin   |-> IF i % 5 = 0 THEN "M2" ELSE "M1",
         Segment   |-> IF i % 6 = 0 THEN "S2" ELSE "S1",
         Datasales |-> 1 + ((i - 1) * days) \div n,
         Qty       |-> i % 3]]

Dataframes == {Dataframe(n, days) : n \in (MinRows - 1)..MaxDf, days \in 1..MaxDays}

Magazins(rows) == {rows[i].Magazin : i \in DOMAIN rows}
Segments(rows) == {rows[i].Segment : i \in DOMAIN rows}

\* the options of the two select boxes (src/app.py:1610-1620)
available_magazins == {AllMagazins} \cup Magazins(df)
available_segments(magazin) ==
    IF magazin = AllMagazins THEN {AllSegments} \cup Segments(df)
    ELSE {AllSegments} \cup Segments(Filter(df, {magazin}, Segments(df)))

\* src/app.py:1624-1630: the rows of the selected store and segment
filter_selection(rows, magazin, segment) ==
    Filter(rows,
           IF magazin # AllMagazins THEN {magazin} ELSE Magazins(rows),
           IF segment # AllSegments THEN {segment} ELSE Segments(rows))

\* a slip that lets one row fewer through
insufficient_data_below_9(rows) == Len(rows) < MinRows - 1

\* src/app.py:1632
insufficient_data(rows) == Len(rows) < MinRows

Horizons      == 1..MaxHorizon

Init ==
    /\ df \in Dataframes
    /\ RequestIdle
    /\ OutliersIdle /\ VolatilityIdle /\ ScenariosIdle /\ AccuracyIdle
    /\ SmoothIdle /\ PrepareIdle /\ QualityIdle /\ CacheIdle /\ InsightsIdle

\* src/app.py:1622-1641: the button is pressed with the sidebar's options; the
\* rows are filtered, counted and, when there are enough, preprocessed
CreateForecast ==
    /\ pc = "ready"
    /\ \E magazin \in available_magazins :
       \E segment \in available_segments(magazin) :
       \E days \in Horizons, outliers \in BOOLEAN,
          method \in SmoothMethods, window \in SmoothWindows :
          LET filtered == filter_selection(df, magazin, segment)
              prepared == prepare_prophet_data(filtered, outliers, method, window)
          IN  /\ method = "none" => window = 3
              /\ selected_magazin' = magazin
              /\ selected_segment' = segment
              /\ forecast_days' = days
              /\ remove_outliers' = outliers
              /\ smooth_method' = method
              /\ smooth_window' = window
              /\ filtered_df' = filtered
              /\ IF insufficient_data(filtered)
                 THEN /\ status' = "insufficient_data"
                      /\ pc' = "done"
                      /\ UNCHANGED <<prophet_data, original_data, calls>>
                 ELSE /\ prophet_data' = prepared.prophet_data
                      /\ original_data' = prepared.original_data
                      /\ calls' = calls \cup {"prepare_prophet_data"}
                      /\ pc' = "train"
                      /\ UNCHANGED status
    /\ UNCHANGED <<df, model, forecast, accuracy_metrics, historical_forecast,
                   future_forecast, segment_volatility, scenarios>>
    /\ UNCHANGED <<outlierVars, volVars, scenVars, accVars, smoothVars, prepVars, qualityVars, cacheVars, insightVars, labelVars>>

\* src/app.py:1670: the handler returns when train_prophet_model gave no model
\* or no forecast
fit_failed_never(m, f) == FALSE

fit_failed(m, f) == m = NoModel \/ f = <<>>

\* src/app.py:1668-1671 with 581-607: fit or predict raised; train_prophet_model
\* reported the error and returned (None, None), and the handler returns
TrainFails ==
    /\ pc = "train"
    /\ model' = NoModel
    /\ forecast' = <<>>
    /\ calls' = calls \cup {"fit", "st.error"}
    /\ IF fit_failed(model', forecast')
       THEN status' = "fit_error" /\ pc' = "done"
       ELSE status' = status /\ pc' = "accuracy"
    /\ UNCHANGED <<df, optionVars, filtered_df, prophet_data, original_data,
                   accuracy_metrics, historical_forecast,
                   future_forecast, segment_volatility, scenarios>>
    /\ UNCHANGED <<outlierVars, volVars, scenVars, accVars, smoothVars, prepVars, qualityVars, cacheVars, insightVars, labelVars>>

\* src/app.py:1668-1673 with 581-603: the model is fitted and the forecast
\* over the fitted dates and the horizon is returned, clamped
TrainSucceeds ==
    /\ pc = "train"
    /\ Len(prophet_data) >= MinFitRows
    /\ \E r \in train_prophet_model(prophet_data, forecast_days) :
          /\ model' = r.model
          /\ forecast' = r.forecast
          /\ IF fit_failed(r.model, r.forecast)
             THEN status' = "fit_error" /\ pc' = "done"
             ELSE status' = status /\ pc' = "accuracy"
    /\ calls' = calls \cup {"fit", "predict"}
    /\ UNCHANGED <<df, optionVars, filtered_df, prophet_data, original_data,
                   accuracy_metrics, historical_forecast,
                   future_forecast, segment_volatility, scenarios>>
    /\ UNCHANGED <<outlierVars, volVars, scenVars, accVars, smoothVars, prepVars, qualityVars, cacheVars, insightVars, labelVars>>

\* `if accuracy_metrics:` (src/app.py:1676, 2022, 2092, 3105, 1368): None is
\* false, the dict of four metrics is true
accuracy_available_always(metrics) == TRUE

accuracy_available(metrics) == ~metrics.none

\* accuracy_metrics['MAPE'] raises TypeError when accuracy_metrics is None
subscript_raises(metrics) == metrics.none

\* src/app.py:1675-1679: the accuracy of the fit on the training window, its
\* table when there are metrics, and the forecast statistics.  Besides what
\* calculate_model_accuracy returns for the window, it returns None when
\* model.predict or a metric raises inside it.
ModelAccuracy ==
    /\ pc = "accuracy"
    /\ \E metrics \in {calculate_model_accuracy(prophet_data, model), None} :
          /\ accuracy_metrics' = metrics
          /\ historical_forecast' =
                IF metrics.none THEN <<>> ELSE historical_yhat(prophet_data, model)
          /\ IF accuracy_available(metrics) /\ subscript_raises(metrics)
             THEN /\ status' = "TypeError"
                  /\ pc' = "done"
                  /\ calls' = calls \cup {"calculate_model_accuracy", "show_accuracy_table"}
             ELSE /\ status' = status
                  /\ pc' = "monthly"
                  /\ calls' = calls \cup {"calculate_model_accuracy", "show_forecast_statistics"}
                                    \cup (IF accuracy_available(metrics)
                                          THEN {"show_accuracy_table"} ELSE {})
    /\ UNCHANGED <<df, optionVars, filtered_df, prophet_data, original_data,
                   model, forecast, future_forecast, segment_volatility, scenarios>>
    /\ UNCHANGED <<outlierVars, volVars, scenVars, accVars, smoothVars, prepVars, qualityVars, cacheVars, insightVars, labelVars>>

\* src/app.py:1692 with 832-879: plot_monthly_analysis_with_forecast filters
\* the rows again and asks the model for the days after the last sale; the
\* yhat it sums per month are the model's own
MonthlyAnalysis ==
    /\ pc = "monthly"
    /\ LET filtered     == filter_selection(df, selected_magazin, selected_segment)
           last         == filtered[Len(filtered)].Datasales
           future_dates == [k \in 1..forecast_days |-> last + k]
       IN  \* of the rows model.predict returns only ds and yhat are read, and
           \* yhat does not depend on the interval drawn for the call
           future_forecast' =
               [i \in DOMAIN future_dates |->
                   [ds |-> future_dates[i], yhat |-> point_estimate(model, future_dates[i])]]
    /\ calls' = calls \cup {"predict"}
    /\ pc' = "scenarios"
    /\ UNCHANGED <<df, optionVars, status, filtered_df, prophet_data, original_data,
                   model, forecast, accuracy_metrics, historical_forecast,
                   segment_volatility, scenarios>>
    /\ UNCHANGED <<outlierVars, volVars, scenVars, accVars, smoothVars, prepVars, qualityVars, cacheVars, insightVars, labelVars>>

\* src/app.py:1905-1918: the scenario table of the last forecast_days rows
DetailedForecast ==
    /\ pc = "scenarios"
    /\ segment_volatility' = calculate_segment_volatility(df, selected_magazin, selected_segment)
    /\ scenarios' = get_forecast_scenarios(tail(forecast, forecast_days), segment_volatility')
    /\ calls' = calls \cup {"get_forecast_scenarios"}
    /\ pc' = "summary"
    /\ UNCHANGED <<df, optionVars, status, filtered_df, prophet_data, original_data,
                   model, forecast, accuracy_metrics, historical_forecast, future_forecast>>
    /\ UNCHANGED <<outlierVars, volVars, scenVars, accVars, smoothVars, prepVars, qualityVars, cacheVars, insightVars, labelVars>>

Excellent        == "excellent"
Good             == "good"
NeedsImprovement == "needs improvement"

\* a slip that lets the thresholds themselves into the better band
model_quality_label_inclusive(metrics) ==
    LET r2 == metrics.R2
    IN  IF RLe(metrics.MAPE, FromInt(10)) /\ ~r2.nan /\ RLe(Rat(8, 10), r2.value) THEN Excellent
        ELSE IF RLe(metrics.MAPE, FromInt(20)) /\ ~r2.nan /\ RLe(Rat(6, 10), r2.value) THEN Good
        ELSE NeedsImprovement

\* src/app.py:2022-2034: the quality of the model status card, from MAPE and
\* R2; a comparison with NaN is false
model_quality_label(metrics) ==
    LET r2 == metrics.R2
    IN  IF RLt(metrics.MAPE, FromInt(10)) /\ ~r2.nan /\ RLt(Rat(8, 10), r2.value) THEN Excellent
        ELSE IF RLt(metrics.MAPE, FromInt(20)) /\ ~r2.nan /\ RLt(Rat(6, 10), r2.value) THEN Good
        ELSE NeedsImprovement

\* src/app.py:1954: confidence_score = (1 - segment_volatility) * 100, of the
\* score in hundredths
confidence_score(volatility) == 100 - volatility.pct

\* src/app.py:3007-3018: the quality of the overall assessment, from the
\* confidence score
quality_status_label(volatility) ==
    IF ~volatility.nan /\ confidence_score(volatility) >= 80 THEN Excellent
    ELSE IF ~volatility.nan /\ confidence_score(volatility) >= 60 THEN Good
    ELSE NeedsImprovement

\* src/app.py:3105-3112: the accuracy recommendation, from MAPE alone
accuracy_rec_label(metrics) ==
    IF RLt(metrics.MAPE, FromInt(10)) THEN Excellent
    ELSE IF RLt(metrics.MAPE, FromInt(20)) THEN Good
    ELSE NeedsImprovement

\* src/app.py:1964-3198: the conclusions, the recommendations and the exports.
\* The model status (2022), the conclusions (2092, 2099), the accuracy
\* recommendation (3105) and the Word report (1368) read the metrics behind
\* `if accuracy_metrics`; the CSV export and the Word report are built from
\* the scenario table.
SummaryAndExport ==
    /\ pc = "summary"
    /\ IF accuracy_available(accuracy_metrics) /\ subscript_raises(accuracy_metrics)
       THEN /\ status' = "TypeError"
            /\ calls' = calls \cup {"model_status"}
            /\ UNCHANGED labelVars
       ELSE /\ status' = "ok"
            /\ model_quality' = IF accuracy_available(accuracy_metrics)
                                THEN model_quality_label(accuracy_metrics) ELSE ""
            /\ quality_status' = quality_status_label(segment_volatility)
            /\ calls' = calls \cup {"model_status", "export_csv", "create_word_report"}
                              \cup (IF accuracy_available(accuracy_metrics)
                                    THEN {"accuracy_recommendation"} ELSE {"metrics_unavailable"})
    /\ pc' = "done"
    /\ UNCHANGED <<df, optionVars, requestVars>>
    /\ UNCHANGED <<outlierVars, volVars, scenVars, accVars, smoothVars, prepVars, qualityVars, cacheVars, insightVars>>

\* the script runs again from the top for the next interaction: nothing of the
\* request is kept
Rerun ==
    /\ pc = "done"
    /\ selected_magazin' = ""
    /\ selected_segment' = ""
    /\ forecast_days' = 0
    /\ remove_outliers' = FALSE
    /\ smooth_method' = "none"
    /\ smooth_window' = 0
    /\ pc' = "ready"
    /\ status' = ""
    /\ calls' = {}
    /\ filtered_df' = <<>>
    /\ prophet_data' = <<>>
    /\ original_data' = <<>>
    /\ model' = NoModel
    /\ forecast' = <<>>
    /\ accuracy_metrics' = NotEvaluated
    /\ historical_forecast' = <<>>
    /\ future_forecast' = <<>>
    /\ segment_volatility' = NoScore
    /\ scenarios' = NoScenarios
    /\ model_quality' = ""
    /\ quality_status' = ""
    /\ UNCHANGED df
    /\ UNCHANGED <<outlierVars, volVars, scenVars, accVars, smoothVars, prepVars, qualityVars, cacheVars, insightVars>>

Next ==
    \/ CreateForecast
    \/ TrainFails
    \/ TrainSucceeds
    \/ ModelAccuracy
    \/ MonthlyAnalysis
    \/ DetailedForecast
    \/ SummaryAndExport
    \/ Rerun

Spec == Init /\ [][Next]_vars

-----------------------------------------------------------------------------
(* Claims about the handler, checked under Spec.                           *)

\* the rows of the forecast that lie after the fitted dates
FutureRows == {i \in DOMAIN forecast : i > Len(model.history)}

Width(row) == row.yhat_upper - row.yhat_lower

\* C1: for every forecast train_prophet_model returns and every future date of
\* the scenario built from forecast.tail(horizon),
\* 0 <= pessimistic <= realistic <= optimistic.
C1_ScenarioOrdered ==
    scenarios # NoScenarios =>
        /\ Len(scenarios.realistic) = forecast_days
        /\ \A i \in DOMAIN scenarios.realistic :
              /\ 0 <= scenarios.pessimistic[i]
              /\ scenarios.pessimistic[i] <= scenarios.realistic[i]
              /\ scenarios.realistic[i] <= scenarios.optimistic[i]

\* a scenario over the whole horizon with, on a future date where the model's
\* own point estimate is negative, the clamped triple 0 = 0 < optimistic
C1_Witness ==
    /\ status = "ok"
    /\ Len(scenarios.realistic) = MaxHorizon
    /\ \E i \in DOMAIN scenarios.realistic :
          /\ future_forecast[i].yhat < 0
          /\ scenarios.pessimistic[i] = 0
          /\ scenarios.realistic[i] = 0
          /\ scenarios.optimistic[i] > 0

\* C5: when fewer than 10 rows are left by the store/segment filter the
\* request ends with the insufficient-data error and neither preprocessing
\* nor fit nor predict has run.
C5_NoFitBelowMinRows ==
    (pc # "ready" /\ Len(filtered_df) < 10) =>
        /\ pc = "done"
        /\ status = "insufficient_data"
        /\ calls = {}
        /\ prophet_data = <<>>
        /\ model = NoModel
        /\ forecast = <<>>

\* the request of a selection of exactly 9 rows has ended with the error
C5_Witness ==
    /\ pc = "done"
    /\ status = "insufficient_data"
    /\ Len(filtered_df) = 9

\* C6: every point estimate or bound that leaves the engine is >= 0, in the
\* forecast of train_prophet_model and in the predictions of the monthly
\* aggregation.
C6_AllPredictionsNonNegative ==
    /\ \A i \in DOMAIN forecast :
          forecast[i].yhat >= 0 /\ forecast[i].yhat_lower >= 0 /\ forecast[i].yhat_upper >= 0
    /\ \A i \in DOMAIN future_forecast : future_forecast[i].yhat >= 0

\* C7: in the forecast train_prophet_model returns, the width
\* yhat_upper - yhat_lower does not shrink from a future date to a later one.
C7_WidthNonDecreasing ==
    \A i \in FutureRows : \A j \in FutureRows :
        i < j => Width(forecast[i]) <= Width(forecast[j])

\* the operations that follow a successful fit
Downstream ==
    {"calculate_model_accuracy", "show_accuracy_table", "show_forecast_statistics",
     "get_forecast_scenarios", "model_status", "accuracy_recommendation",
     "metrics_unavailable", "export_csv", "create_word_report"}

\* C15: the predictions calculate_model_accuracy compares with the actuals
\* are, at every training date, the yhat of the forecast train_prophet_model
\* returned for that date.
C15_AccuracyOnExposedForecast ==
    (accuracy_metrics # NotEvaluated /\ ~accuracy_metrics.none) =>
        \A i \in DOMAIN prophet_data :
            /\ forecast[i].ds = prophet_data[i].ds
            /\ historical_forecast[i] = FromInt(forecast[i].yhat)

\* C17: when calculate_model_accuracy returned None after a successful fit, no
\* later step fails: the request is at one of the stages after the accuracy
\* check (each of which is guarded by the position alone), the accuracy
\* displays are left out, the forecast statistics are shown, and the request
\* ends with the scenario table over the horizon and both exports.
C17_ContinuesWithoutMetrics ==
    accuracy_metrics = None =>
        /\ model # NoModel
        /\ status # "TypeError"
        /\ calls \cap {"show_accuracy_table", "accuracy_recommendation"} = {}
        /\ "show_forecast_statistics" \in calls
        /\ pc \in {"monthly", "scenarios", "summary", "done"}
        /\ pc = "done" =>
              /\ status = "ok"
              /\ Len(scenarios.realistic) = forecast_days
              /\ {"get_forecast_scenarios", "metrics_unavailable",
                  "export_csv", "create_word_report"} \subseteq calls

\* a request without metrics that ended with the scenario table and the exports
C17_Witness ==
    /\ accuracy_metrics = None
    /\ pc = "done"
    /\ status = "ok"
    /\ Len(scenarios.realistic) = MaxHorizon
    /\ {"export_csv", "create_word_report"} \subseteq calls

\* C18: when fit or predict raised, train_prophet_model reported the error and
\* returned (None, None), and the request has ended with nothing of the
\* accuracy, statistics, scenarios or exports computed; a series of fewer
\* than 2 dates always ends so; and the forecast that goes downstream covers
\* every fitted date and the whole horizon.
C18_FitFailureEndsRequest ==
    /\ ("fit" \in calls /\ model = NoModel) =>
          /\ forecast = <<>>
          /\ "st.error" \in calls
          /\ pc = "done"
          /\ status = "fit_error"
          /\ calls \cap Downstream = {}
          /\ accuracy_metrics = NotEvaluated
          /\ future_forecast = <<>>
          /\ scenarios = NoScenarios
    /\ ("fit" \in calls /\ Len(prophet_data) < 2) => model = NoModel
    /\ calls \cap Downstream # {} =>
          /\ model # NoModel
          /\ Len(forecast) = Len(prophet_data) + forecast_days

\* 10 or more rows, all of one date: the fit failed and the request ended
C18_Witness ==
    /\ status = "fit_error"
    /\ pc = "done"
    /\ Len(filtered_df) >= 10
    /\ Len(prophet_data) = 1
    /\ model = NoModel

\* the rows of the forecast the scenario table is built from (src/app.py:1905)
forecast_display == tail(forecast, forecast_days)

\* C24: the scenario sequences of a request have exactly forecast_days
\* entries, and their dates are the forecast_days consecutive days that follow
\* the last date of the series the model was fitted on: no fitted date is
\* among them.
C24_ScenarioOverFutureDays ==
    scenarios # NoScenarios =>
        LET last == prophet_data[Len(prophet_data)].ds
        IN  /\ Len(scenarios.realistic) = forecast_days
            /\ Len(scenarios.optimistic) = forecast_days
            /\ Len(scenarios.pessimistic) = forecast_days
            /\ Len(forecast_display) = forecast_days
            /\ \A i \in DOMAIN forecast_display :
                  /\ forecast_display[i].ds = last + i
                  /\ \A j \in DOMAIN prophet_data : prophet_data[j].ds < forecast_display[i].ds

\* a scenario over the longest horizon after a fit on the most dates
C24_Witness ==
    /\ scenarios # NoScenarios
    /\ Len(prophet_data) = MaxDays
    /\ Len(scenarios.realistic) = MaxHorizon
    /\ forecast_display[1].ds = prophet_data[MaxDays].ds + 1

\* C26: the quality labels shown in one request agree: the label of the model
\* status card, the label of the overall assessment and the band of the
\* accuracy recommendation are the same.
C26_QualityLabelsAgree ==
    (model_quality # "" /\ quality_status # "") =>
        /\ model_quality = quality_status
        /\ "accuracy_recommendation" \in calls =>
              accuracy_rec_label(accuracy_metrics) = model_quality

\* the score calculate_segment_volatility gives for the rows the forecast was
\* fitted on, taken as the rows of one store and one segment
SelectionScore ==
    calculate_segment_volatility(
        [i \in DOMAIN filtered_df |->
            [filtered_df[i] EXCEPT !.Magazin = "selection", !.Segment = "selection"]],
        "selection", "selection")

\* C27: the volatility score of a request, and with it the confidence
\* percentage, is the score of the filtered rows the forecast was fitted on,
\* for every selection of store and segment.
C27_VolatilityOfSelection ==
    segment_volatility # NoScore => segment_volatility = SelectionScore

-----------------------------------------------------------------------------
(* Specification SpecQuality: the model quality of the status card         *)
(* (src/app.py:2022-2034) for metrics on a grid of MAPE and R2 values that  *)
(* holds the thresholds.                                                    *)

\* the MAPE values are 0, 2.5, 5, ... : this many steps of 2.5
MaxMapeSteps == 9
\* the R2 values are the tenths from -MaxR2Tenths / 10 to 1, and NaN
MaxR2Tenths == 2

QualityMapes == {Rat(5 * k, 2) : k \in 0..MaxMapeSteps}
QualityR2s   == {Float(Rat(k, 10)) : k \in (-MaxR2Tenths)..10} \cup {NaNFloat}

InitQuality ==
    /\ q_metrics \in {Metrics(Zero, Sqrt(Zero), m, r) : m \in QualityMapes, r \in QualityR2s}
    /\ q_label = ""
    /\ OutliersIdle /\ VolatilityIdle /\ ScenariosIdle /\ AccuracyIdle /\ SmoothIdle
    /\ PrepareIdle /\ CacheIdle /\ InsightsIdle /\ PipelineIdle

StatusCard ==
    /\ q_label = ""
    /\ q_label' = model_quality_label(q_metrics)
    /\ UNCHANGED <<q_metrics, outlierVars, volVars, scenVars, accVars, smoothVars, prepVars,
                   cacheVars, insightVars, pipelineVars>>

NextQuality == StatusCard

SpecQuality == InitQuality /\ [][NextQuality]_vars

\* MAPE < 10 and R2 > 0.8; MAPE < 20 and R2 > 0.6 (false for a NaN R2)
InExcellentBand ==
    /\ RLt(q_metrics.MAPE, FromInt(10))
    /\ ~q_metrics.R2.nan /\ RLt(Rat(8, 10), q_metrics.R2.value)
InGoodBand ==
    /\ RLt(q_metrics.MAPE, FromInt(20))
    /\ ~q_metrics.R2.nan /\ RLt(Rat(6, 10), q_metrics.R2.value)

\* C25: the model quality is 'excellent' exactly when MAPE < 10 and R2 > 0.8,
\* otherwise 'good' exactly when MAPE < 20 and R2 > 0.6, otherwise 'needs
\* improvement': one and only one of the three for every pair (MAPE, R2).
C25_QualityBands ==
    q_label # "" =>
        /\ q_label \in {Excellent, Good, NeedsImprovement}
        /\ q_label = Excellent <=> InExcellentBand
        /\ q_label = Good <=> (~InExcellentBand /\ InGoodBand)
        /\ q_label = NeedsImprovement <=> (~InExcellentBand /\ ~InGoodBand)

\* MAPE exactly 10 with R2 = 1 is 'good', not 'excellent'
C25_Witness ==
    /\ q_label = Good
    /\ q_metrics.MAPE = FromInt(10)
    /\ q_metrics.R2 = Float(FromInt(1))

-----------------------------------------------------------------------------
(* Specification SpecCache: load_from_google_sheets_cached                 *)
(* (src/app.py:326-380) called again and again with a sheet, a cache        *)
(* duration and whatever the sheet then answers, the cache button of main() *)
(* (1524-1530), and the clock.  Time is counted in hours.                   *)

\* the sheets a call may name
Urls == {"sheet_a", "sheet_b"}

\* longest cache duration of the select box, in hours
MaxDuration == 2
\* last hour of the clock
MaxClock == 3

CacheDurations == 1..MaxDuration

\* how the download and the validation of a call end
FetchOutcomes == {"ok", "fetch_error", "missing_columns"}

\* a slip that still serves a cache that is exactly cache_duration_hours old
cache_fresh_inclusive(cache_duration_hours) ==
    /\ cache_file # NoFile /\ cache_time_file # NoTimeFile
    /\ now - cache_time_file <= cache_duration_hours

\* src/app.py:333-338: both files exist and the recorded time is less than
\* cache_duration_hours ago
cache_fresh(cache_duration_hours) ==
    /\ cache_file # NoFile /\ cache_time_file # NoTimeFile
    /\ now - cache_time_file < cache_duration_hours

InitCache ==
    /\ CacheIdle /\ InsightsIdle
    /\ OutliersIdle /\ VolatilityIdle /\ ScenariosIdle /\ AccuracyIdle /\ SmoothIdle
    /\ PrepareIdle /\ QualityIdle /\ InsightsIdle /\ PipelineIdle

\* src/app.py:326-380.  A fresh cache is returned without a look at
\* sheet_url; otherwise the sheet is downloaded and validated, and only then
\* both files are written; a failure returns None.
LoadCached ==
    /\ UNCHANGED <<outlierVars, volVars, scenVars, accVars, smoothVars, prepVars,
                   qualityVars, insightVars, pipelineVars>>
    /\ \E sheet_url \in Urls, cache_duration_hours \in CacheDurations, fetched \in FetchOutcomes :
        IF cache_fresh(cache_duration_hours)
        THEN /\ gs_returned' = cache_file
             /\ gs_call' = [sheet_url |-> sheet_url,
                            cache_duration_hours |-> cache_duration_hours,
                            outcome |-> "cache"]
             /\ UNCHANGED <<cache_file, cache_time_file, now>>
        ELSE /\ gs_call' = [sheet_url |-> sheet_url,
                            cache_duration_hours |-> cache_duration_hours,
                            outcome |-> fetched]
             /\ IF fetched = "ok"
                THEN /\ cache_file' = Dataset(sheet_url, now)
                     /\ cache_time_file' = now
                     /\ gs_returned' = Dataset(sheet_url, now)
                ELSE /\ gs_returned' = NoData
                     /\ UNCHANGED <<cache_file, cache_time_file>>
             /\ UNCHANGED now

\* src/app.py:1524-1530: the button removes both files
ClearCache ==
    /\ cache_file' = NoFile
    /\ cache_time_file' = NoTimeFile
    /\ UNCHANGED <<now, gs_call, gs_returned>>
    /\ UNCHANGED <<outlierVars, volVars, scenVars, accVars, smoothVars, prepVars,
                   qualityVars, insightVars, pipelineVars>>

\* an hour passes
Tick ==
    /\ now < MaxClock
    /\ now' = now + 1
    /\ UNCHANGED <<cache_file, cache_time_file, gs_call, gs_returned>>
    /\ UNCHANGED <<outlierVars, volVars, scenVars, accVars, smoothVars, prepVars,
                   qualityVars, insightVars, pipelineVars>>

NextCache ==
    \/ LoadCached
    \/ ClearCache
    \/ Tick

SpecCache == InitCache /\ [][NextCache]_vars

\* C28: the dataset a call returns, from the cache or from the download, was
\* fetched from the sheet_url of that call.
C28_ServedFromSameSheet ==
    gs_call.outcome \in {"cache", "ok"} => gs_returned.sheet_url = gs_call.sheet_url

\* C29: a call that fails by a download error or by missing columns returns
\* None and leaves both cache files as they were; the files are written only
\* by a call whose download and validation succeeded; and a call returns the
\* cache only if its recorded time is less than cache_duration_hours ago.
C29_FailedLoadKeepsCache ==
    [][LoadCached =>
          /\ gs_call'.outcome \in {"fetch_error", "missing_columns"} =>
                /\ gs_returned' = NoData
                /\ UNCHANGED <<cache_file, cache_time_file>>
          /\ (cache_file' # cache_file \/ cache_time_file' # cache_time_file) =>
                /\ gs_call'.outcome = "ok"
                /\ cache_file' = Dataset(gs_call'.sheet_url, now)
                /\ cache_time_file' = now
          /\ gs_call'.outcome = "cache" =>
                /\ now - cache_time_file < gs_call'.cache_duration_hours
                /\ gs_returned' = cache_file]_vars

\* a download failed while a cache that is too old was on the disk: None was
\* returned and the files are still there
C29_Witness ==
    /\ gs_call.outcome = "fetch_error"
    /\ gs_returned = NoData
    /\ cache_file # NoFile
    /\ now - cache_time_file >= gs_call.cache_duration_hours

-----------------------------------------------------------------------------
(* Specification SpecInsights: generate_insights for segment S1 and a      *)
(* selected store on every bounded dataframe, with a forecast shaped as    *)
(* train_prophet_model returns it (src/app.py:593-596): one row for every  *)
(* fitted date, followed by one row for every day of the horizon.          *)

\* most rows of the dataframe, and its largest Qty
MaxInsRows == 2
MaxInsQty == 2
\* most fitted dates, most days of the horizon, largest yhat
MaxInsHistory == 2
MaxInsHorizon == 2
MaxInsYhat == 1

\* the number of rows generate_insights takes from either end of the rows
\* and from the end of the forecast (src/app.py:1273, 1274, 1291, 1293)
InsightRows == 30

InsRowSet ==
    [Magazin : {"M1"}, Segment : {"S1"}, Datasales : 1..MaxInsHistory, Qty : 0..MaxInsQty]

\* the forecasts of h fitted dates and d days of the horizon
InsForecasts(h, d) ==
    {[i \in 1..(h + d) |-> [ds |-> i, yhat |-> y[i]]] : y \in [1..(h + d) -> 0..MaxInsYhat]}

\* the first n entries of s (DataFrame.head)
head(s, n) == IF n >= Len(s) THEN s ELSE SubSeq(s, 1, n)

\* the column yhat of forecast rows, the column y of a daily series
yhat_of(rows) == [i \in DOMAIN rows |-> FromInt(rows[i].yhat)]
y_of(daily) == [i \in DOMAIN daily |-> FromInt(daily[i].y)]

\* cv > 0.5 for cv = daily_sales.std() / daily_sales.mean() if the mean is
\* positive else 0 (src/app.py:1284, 1286); std is the sample deviation, which
\* is NaN for one entry and then compares False.  With n entries of sum s and
\* sum of squares q, cv^2 = n (n q - s^2) / ((n - 1) s^2).
high_cv(daily) ==
    LET n == Len(daily)
        s == SumSeq([i \in DOMAIN daily |-> daily[i].y])
        q == SumSeq([i \in DOMAIN daily |-> daily[i].y * daily[i].y])
    IN  /\ n >= 2
        /\ s > 0
        /\ 4 * n * (n * q - s * s) > (n - 1) * s * s

\* future_forecast = forecast.tail(30) (src/app.py:1291), the rows of the
\* forecast whose yhat is averaged: the function is not given the horizon
future_forecast_rows(fcst) == tail(fcst, InsightRows)

\* src/app.py:1262-1300; the factors 1.2, 0.8, 1.1 and 0.9 are taken exactly
generate_insights(rows, fcst, magazin, segment) ==
    LET filtered == Filter(rows, {magazin}, {segment})
        recent_sales == SumQty(tail(filtered, InsightRows))
        older_sales == SumQty(head(filtered, InsightRows))
        trend == IF 5 * recent_sales > 6 * older_sales THEN "growth"
                 ELSE IF 5 * recent_sales < 4 * older_sales THEN "decline"
                 ELSE "none"
        daily_sales == groupby_sum(filtered)
        avg_forecast == mean(yhat_of(future_forecast_rows(fcst)))
        historical_avg == mean(y_of(tail(daily_sales, InsightRows)))
        outlook == IF RLt(RMul(historical_avg, Rat(11, 10)), avg_forecast)
                   THEN "forecast growth"
                   ELSE IF RLt(avg_forecast, RMul(historical_avg, Rat(9, 10)))
                   THEN "forecast decline"
                   ELSE "none"
    IN  IF Len(filtered) = 0 THEN Insights({}, {}, FALSE, Zero, Zero)
        ELSE Insights(
                 (IF trend = "growth" THEN {"increase purchases"} ELSE {})
                     \cup (IF trend = "decline" THEN {"consider promotions"} ELSE {})
                     \cup (IF high_cv(daily_sales) THEN {"buffer stock"} ELSE {})
                     \cup (IF outlook = "none" THEN {} ELSE {outlook}),
                 (IF trend = "decline" THEN {"sales decline"} ELSE {})
                     \cup (IF high_cv(daily_sales) THEN {"high volatility"} ELSE {}),
                 TRUE, avg_forecast, historical_avg)

InitInsights ==
    /\ ins_df \in {r \in SeqsUpTo(InsRowSet, MaxInsRows) : SortedByDate(r)}
    /\ ins_magazin \in {"M1", AllMagazins}
    /\ \E h \in 1..MaxInsHistory : \E d \in 1..MaxInsHorizon :
          /\ ins_horizon = d
          /\ ins_forecast \in InsForecasts(h, d)
    /\ ins_out = NoInsights
    /\ OutliersIdle /\ VolatilityIdle /\ ScenariosIdle /\ AccuracyIdle /\ SmoothIdle
    /\ PrepareIdle /\ QualityIdle /\ CacheIdle /\ PipelineIdle

GenerateInsights ==
    /\ ins_out = NoInsights
    /\ ins_out' = generate_insights(ins_df, ins_forecast, ins_magazin, "S1")
    /\ UNCHANGED <<ins_df, ins_magazin, ins_forecast, ins_horizon, outlierVars, volVars,
                   scenVars, accVars, smoothVars, prepVars, qualityVars, cacheVars,
                   pipelineVars>>

NextInsights == GenerateInsights

SpecInsights == InitInsights /\ [][NextInsights]_vars

\* C30: the forecast average that generate_insights compares with the
\* historical daily average is the mean of yhat over the rows of the horizon
\* only, never over rows of the fitted dates.
C30_InsightAverageOverFuture ==
    ins_out.compared =>
        ins_out.avg_forecast = mean(yhat_of(tail(ins_forecast, ins_horizon)))

=============================================================================
